---- MODULE Spec2Model ----
(***************************************************************************)
(* Model of merge_bisect.py: bisection over the first-parent merge commits *)
(* of the last N days, driven by a shell command used as pass/fail oracle. *)
(*                                                                         *)
(* Conventions                                                             *)
(*   - A commit is identified by its sha1; sha1s are the integers 1..n in  *)
(*     chronological order (1 = oldest), so `git log` (newest first)       *)
(*     returns <<n, ..., 1>>.                                              *)
(*   - The working tree position `head` is OnBranch (-1) when the named    *)
(*     branch is checked out, i >= 1 when HEAD is detached at commit i,    *)
(*     and 0 when HEAD is detached at a commit older than the time window. *)
(*   - The validation command is a pure function of the content of the     *)
(*     working tree: oracle[c] is its return code when commit c is checked *)
(*     out (0 = success).                                                  *)
(*   - List and dict operations follow Python 2 semantics (keys() is a     *)
(*     list), which is what lines 133-180 rely on.                         *)
(*   - The --verbose flag only adds output and is left out.                *)
(***************************************************************************)
EXTENDS Integers, Sequences, FiniteSets, TLC

VARIABLES
    log,          \* result of commits_for_n_days: sha1s, newest first
    oracle,       \* return code of args.cmd per checked-out commit
    head,         \* current position of the working tree
    head0,        \* position of the working tree when the run started
    branch,       \* token recorded by stay_on_branch
    all_commits,  \* OrderedDict commit -> None / True / False
    commits,      \* the list `commits` (search window)
    pc,           \* position in main()
    calls,        \* git checkouts, command starts and exits, in order
    stdout,       \* lines printed to standard output
    stderr,       \* lines printed to standard error
    ret,          \* return value of main() = exit status (-1: not returned)
    bad_commit,   \* the reported commit (0: none)
    run,          \* 1 for the first invocation, 2 for the second
    prev          \* what the first invocation produced

vars == <<log, oracle, head, head0, branch, all_commits, commits, pc, calls,
          stdout, stderr, ret, bad_commit, run, prev>>

\* Largest number of commits returned by git log.
MaxN == 7

\* Working tree positions and checkout tokens.
OnBranch == -1
BranchName == -1
BadToken == -2

----------------------------------------------------------------------------
(* Python list helpers *)

Reverse(s) == [i \in 1..Len(s) |-> s[Len(s) + 1 - i]]

\* s[a:b] with 0 <= a, b (Python slice, 0-based, b exclusive)
Slice(s, a, b) == SubSeq(s, a + 1, IF b > Len(s) THEN Len(s) ELSE b)

\* list.remove(x) left out
Remove_keep(s, x) == s

RECURSIVE Remove(_, _)
\* list.remove(x): drops the first element equal to x
Remove(s, x) ==
    IF s = <<>> THEN <<>>
    ELSE IF Head(s) = x THEN Tail(s)
    ELSE <<Head(s)>> \o Remove(Tail(s), x)

ToSet(s) == {s[i] : i \in 1..Len(s)}

----------------------------------------------------------------------------
(* git *)

\* The commit whose content is in the working tree at position h.
Content(h) == IF h = OnBranch THEN Len(log) ELSE h

\* current_branch(): second field of the starred line of `git branch`.
\* On a branch this is the branch name; with a detached HEAD the line is
\* "* (HEAD detached at ...)" and the field is "(HEAD".
current_branch(h) == IF h = OnBranch THEN BranchName ELSE BadToken

\* checkout(sha1): `git checkout <token>`; the result of the call is ignored,
\* so a token that does not resolve leaves the working tree where it was.
checkout(h, token) ==
    IF token = BranchName THEN OnBranch
    ELSE IF token \in ToSet(log) THEN token
    ELSE h

\* Call.__bool__ with the test on the return code inverted.
Bool_nonzero(rc) == IF rc # 0 THEN "True" ELSE "False"

\* Call.__bool__: a call is truthy iff its return code is 0.
Bool(rc) == IF rc = 0 THEN "True" ELSE "False"

\* call_on_commit with the command started before the checkout.
call_on_commit_stale(h, commit) ==
    [head  |-> checkout(h, commit),
     rc    |-> oracle[Content(h)],
     calls |-> << [op |-> "cmd", arg |-> Content(h)],
                  [op |-> "exit", arg |-> Content(h)],
                  [op |-> "checkout", arg |-> commit] >>,
     out   |-> << [msg |-> IF oracle[Content(h)] = 0
                           THEN "PASSED" ELSE "FAILED",
                   arg |-> commit] >>]

\* call_on_commit(cmd, commit): checkout, run the command, print the outcome.
\* Call(cmd) starts the command on the working tree (Popen, "cmd") and waits
\* for it to end (communicate, "exit") before it returns.
call_on_commit(h, commit) ==
    LET h1 == checkout(h, commit)
        rc == oracle[Content(h1)]
    IN  [head  |-> h1,
         rc    |-> rc,
         calls |-> << [op |-> "checkout", arg |-> commit],
                      [op |-> "cmd", arg |-> Content(h1)],
                      [op |-> "exit", arg |-> Content(h1)] >>,
         out   |-> << [msg |-> IF rc = 0 THEN "PASSED" ELSE "FAILED",
                       arg |-> commit] >>]

----------------------------------------------------------------------------
(* main() *)

\* OrderedDict((i, None) for i in reversed(commits_for_n_days(days)))
NewDict(l) == [c \in ToSet(l) |-> "None"]

\* all_commits.keys(): insertion order = reversed log
Keys(l) == Reverse(l)

Init ==
    /\ log \in {[i \in 1..n |-> n + 1 - i] : n \in 0..MaxN}
    /\ oracle \in [1..Len(log) -> {0, 1}]
    /\ head \in {OnBranch, Len(log)}
    /\ head0 = head
    /\ branch = BadToken
    /\ all_commits = <<>>
    /\ commits = <<>>
    /\ pc = "start"
    /\ calls = <<>>
    /\ stdout = <<>>
    /\ stderr = <<>>
    /\ ret = -1
    /\ bad_commit = 0
    /\ run = 1
    /\ prev = [evals |-> <<>>, ret |-> -1, bad_commit |-> 0,
               all_commits |-> <<>>]

\* the length check with an off-by-one threshold
TooFew_one(cs) == Len(cs) < 1

\* len(commits) < 2
TooFew(cs) == Len(cs) < 2

\* lines 131-140: enter stay_on_branch, build the dict, check the length
Start ==
    /\ pc = "start"
    /\ branch' = current_branch(head)
    /\ all_commits' = NewDict(log)
    /\ commits' = Keys(log)
    /\ stdout' = stdout \o << [msg |-> "Found", arg |-> Len(log)] >>
    /\ IF TooFew(Keys(log))
       THEN /\ stderr' = stderr \o
                  << [msg |-> "InsufficientHistory", arg |-> 0] >>
            /\ ret' = 1
            /\ pc' = "finally"
       ELSE /\ pc' = "oldest"
            /\ UNCHANGED <<stderr, ret>>
    /\ UNCHANGED <<log, oracle, head, head0, calls, bad_commit, run, prev>>

\* the first evaluation taking commits[-1] instead of commits[0]
Oldest_last(cs) == cs[Len(cs)]

\* commits[0]
Oldest(cs) == cs[1]

\* the second evaluation taking commits[0] instead of commits[-1]
Newest_first(cs) == cs[1]

\* commits[-1]
Newest(cs) == cs[Len(cs)]

\* lines 142-152: evaluate the earliest commit
EvalOldest ==
    /\ pc = "oldest"
    /\ LET commit == Oldest(commits)
           r == call_on_commit(head, commit)
       IN  /\ commits' = Remove(commits, commit)
           /\ head' = r.head
           /\ calls' = calls \o r.calls
           /\ all_commits' = [all_commits EXCEPT ![commit] = Bool(r.rc)]
           /\ IF Bool(r.rc) # "True"
              THEN /\ stdout' = stdout \o r.out \o
                         << [msg |-> "NoGoodBaseline", arg |-> commit] >>
                   /\ ret' = 1
                   /\ pc' = "finally"
              ELSE /\ stdout' = stdout \o r.out
                   /\ pc' = "newest"
                   /\ UNCHANGED ret
    /\ UNCHANGED <<log, oracle, head0, branch, stderr, bad_commit, run, prev>>

\* lines 154-164: evaluate the latest commit
EvalNewest ==
    /\ pc = "newest"
    /\ IF commits = <<>>
       THEN \* commits[-1] on an empty list raises IndexError
            /\ stderr' = stderr \o << [msg |-> "Traceback", arg |-> 0] >>
            /\ ret' = 1
            /\ pc' = "finally"
            /\ UNCHANGED <<commits, head, calls, all_commits, stdout>>
       ELSE LET commit == Newest(commits)
                r == call_on_commit(head, commit)
            IN  /\ commits' = Remove(commits, commit)
                /\ head' = r.head
                /\ calls' = calls \o r.calls
                /\ all_commits' = [all_commits EXCEPT ![commit] = Bool(r.rc)]
                /\ UNCHANGED stderr
                /\ IF Bool(r.rc) = "True"
                   THEN /\ stdout' = stdout \o r.out \o
                              << [msg |-> "NoBadTarget", arg |-> commit] >>
                        /\ ret' = 1
                        /\ pc' = "finally"
                   ELSE /\ stdout' = stdout \o r.out
                        /\ pc' = "loop"
                        /\ UNCHANGED ret
    /\ UNCHANGED <<log, oracle, head0, branch, bad_commit, run, prev>>

\* the midpoint replaced by the first element of the window (linear scan)
Middle_zero(cs) == 0

\* the midpoint rounded to the lower of the two middle elements
Middle_low(cs) == (Len(cs) - 1) \div 2

\* middle = len(commits) // 2
Middle(cs) == Len(cs) \div 2

\* the propagation loop left out
Mark_none(all, cs, v) == all

\* the propagation loop running over the whole dict
Mark_all(all, cs, v) == [c \in DOMAIN all |-> v]

\* the propagation loop writing the negated outcome
Mark_flip(all, cs, v) ==
    [c \in DOMAIN all |->
        IF c \in ToSet(cs) THEN (IF v = "True" THEN "False" ELSE "True")
        ELSE all[c]]

\* for c in cs: all_commits[c] = v
Mark(all, cs, v) == [c \in DOMAIN all |-> IF c \in ToSet(cs) THEN v ELSE all[c]]

\* the slice after the midpoint starting one element late
After_skip(cs, middle) == Slice(cs, middle + 2, Len(cs))

\* the slice after the midpoint keeping the midpoint
After_incl(cs, middle) == Slice(cs, middle, Len(cs))

\* commits[middle + 1:]
After(cs, middle) == Slice(cs, middle + 1, Len(cs))

\* the slice before the midpoint ending one element early
Before_short(cs, middle) == Slice(cs, 0, middle - 1)

\* commits[:middle]
Before(cs, middle) == Slice(cs, 0, middle)

\* lines 166-180: one iteration of the while loop
Bisect ==
    /\ pc = "loop"
    /\ commits # <<>>
    /\ LET middle == Middle(commits)
           commit == commits[middle + 1]
           r == call_on_commit(head, commit)
           evaluated == [all_commits EXCEPT ![commit] = Bool(r.rc)]
       IN  /\ head' = r.head
           /\ calls' = calls \o r.calls
           /\ stdout' = stdout \o r.out
           /\ IF Bool(r.rc) = "True"
              THEN /\ all_commits' =
                         Mark(evaluated, Before(commits, middle), Bool(r.rc))
                   /\ commits' = After(commits, middle)
              ELSE /\ all_commits' =
                         Mark(evaluated, After(commits, middle), Bool(r.rc))
                   /\ commits' = Before(commits, middle)
    /\ UNCHANGED <<log, oracle, head0, branch, pc, stderr, ret, bad_commit,
                   run, prev>>

\* positions in keys whose value is falsy (None or False)
NotGood(all, keys) == {i \in 1..Len(keys) : all[keys[i]] # "True"}

\* the search for the bad commit taking the last falsy entry, not the first
LastNotGood(all, keys) ==
    keys[CHOOSE i \in NotGood(all, keys) :
             \A j \in NotGood(all, keys) : i >= j]

\* next(commit for commit, is_good in all_commits.items() if not is_good)
FirstNotGood(all, keys) ==
    keys[CHOOSE i \in NotGood(all, keys) :
             \A j \in NotGood(all, keys) : i <= j]

\* for commit, is_good in reversed(all_commits.items()): print the label
Table(all, keys) ==
    [i \in 1..Len(keys) |->
        [msg |-> IF all[Reverse(keys)[i]] = "True"
                 THEN "SUCCESS" ELSE "FAILURE",
         arg |-> Reverse(keys)[i]]]

\* lines 182-196: the loop ended; find the bad commit and print the report
Report ==
    /\ pc = "loop"
    /\ commits = <<>>
    /\ IF NotGood(all_commits, Keys(log)) = {}
       THEN \* next() on an exhausted generator raises StopIteration
            /\ stderr' = stderr \o << [msg |-> "Traceback", arg |-> 0] >>
            /\ ret' = 1
            /\ UNCHANGED <<stdout, bad_commit>>
       ELSE /\ bad_commit' = FirstNotGood(all_commits, Keys(log))
            /\ stdout' = stdout \o << [msg |-> "Done", arg |-> 0],
                                      [msg |-> "CommitLog", arg |-> 0] >>
                            \o Table(all_commits, Keys(log))
                            \o << [msg |-> "BAD COMMIT",
                                   arg |-> FirstNotGood(all_commits,
                                                        Keys(log))] >>
            /\ ret' = 0
            /\ UNCHANGED stderr
    /\ pc' = "finally"
    /\ UNCHANGED <<log, oracle, head, head0, branch, all_commits, commits,
                   calls, run, prev>>

\* lines 79-80: the finally clause of stay_on_branch, then main returns ret
Finally ==
    /\ pc = "finally"
    /\ head' = checkout(head, branch)
    /\ calls' = calls \o << [op |-> "checkout", arg |-> branch] >>
    /\ pc' = "done"
    /\ UNCHANGED <<log, oracle, head0, branch, all_commits, commits, stdout,
                   stderr, ret, bad_commit, run, prev>>

\* the commits passed to call_on_commit, in order (one PASSED/FAILED line each)
Evals ==
    LET lines == SelectSeq(stdout, LAMBDA e : e.msg \in {"PASSED", "FAILED"})
    IN  [i \in 1..Len(lines) |-> lines[i].arg]

\* lines 199-200: the tool is invoked a second time, in the working tree the
\* first invocation left, with the same command and the same git log
Rerun ==
    /\ pc = "done"
    /\ run = 1
    /\ run' = 2
    /\ prev' = [evals |-> Evals, ret |-> ret, bad_commit |-> bad_commit,
                all_commits |-> all_commits]
    /\ head0' = head
    /\ branch' = BadToken
    /\ all_commits' = <<>>
    /\ commits' = <<>>
    /\ pc' = "start"
    /\ calls' = <<>>
    /\ stdout' = <<>>
    /\ stderr' = <<>>
    /\ ret' = -1
    /\ bad_commit' = 0
    /\ UNCHANGED <<log, oracle, head>>

Next ==
    \/ Start
    \/ EvalOldest
    \/ EvalNewest
    \/ Bisect
    \/ Report
    \/ Finally
    \/ Rerun

Spec == Init /\ [][Next]_vars

\* main() runs sequentially to its end; a second invocation follows
FairSpec == Spec /\ WF_vars(Next)

----------------------------------------------------------------------------
(* Properties *)

N == Len(log)

\* sha1 of the chronologically first / last commit of the sequence
OldestSha == log[Len(log)]
NewestSha == log[1]

\* number of times the validation command was run
NumEvals == Len(SelectSeq(calls, LAMBDA e : e.op = "cmd"))

\* the oracle passes every commit before the k-th of the ascending sequence
\* (k counted from 1) and fails the k-th and every later one
Monotone(k) ==
    /\ k \in 2..N
    /\ \A i \in 1..N : (oracle[i] = 0) <=> (i < k)

Printed(stream, m) == \E i \in 1..Len(stream) : stream[i].msg = m

RECURSIVE Pow2(_)
Pow2(e) == IF e = 0 THEN 1 ELSE 2 * Pow2(e - 1)

\* ceil(log2(n)) for n >= 1
CeilLog2(n) == CHOOSE e \in 0..n : Pow2(e) >= n /\ \A d \in 0..(e - 1) : Pow2(d) < n

\* C1: under an oracle that passes every commit before position k and fails
\* from position k on (oldest passes, newest fails), every run completes with
\* exit status 0 and reports exactly the k-th commit of the ascending sequence.
C1_ReportsTransition ==
    \A k \in 2..MaxN :
        (pc = "start" /\ Monotone(k))
            ~> (pc = "done" /\ ret = 0 /\ k <= N
                    /\ bad_commit = Reverse(log)[k])

C1_Witness ==
    /\ pc = "done"
    /\ ret = 0
    /\ N >= 6
    /\ \E k \in 3..(N - 1) : Monotone(k) /\ bad_commit = k

\* C2 as stated: with oldest passing and newest failing under a monotonic
\* oracle, the number of command runs of the whole invocation, the two
\* boundary runs included, is at most ceil(log2(n)).
C2_AtMostLog2N ==
    (pc = "done" /\ \E k \in 2..N : Monotone(k)) => NumEvals <= CeilLog2(N)

\* C2 amended: under the same conditions the number of command runs is at
\* most 2 + ceil(log2(n - 1)): the two boundary runs plus at most
\* ceil(log2(n - 1)) <= ceil(log2(n)) runs of the binary search.
C2_AtMostTwoPlusLog2 ==
    (pc = "done" /\ \E k \in 2..N : Monotone(k))
        => NumEvals <= 2 + CeilLog2(N - 1)

C2_Witness ==
    /\ pc = "done"
    /\ N = 6
    /\ \E k \in 2..N : Monotone(k)
    /\ NumEvals = 2 + CeilLog2(N - 1)

\* C3: on every exit path the last checkout is of the position recorded
\* before any commit was checked out, and the working tree position after the
\* run equals the position before the run.
C3_WorkspaceRestored ==
    pc = "done" =>
        /\ calls # <<>>
        /\ calls[Len(calls)] = [op |-> "checkout", arg |-> branch]
        /\ head = head0

\* C4: once the while loop has ended, every commit of the sequence has a
\* verdict of True or False in all_commits; none is still None.
C4_VerdictMapComplete ==
    ((pc = "loop" /\ commits = <<>>) \/ (pc \in {"finally", "done"} /\ ret = 0))
        => \A c \in ToSet(log) : all_commits[c] \in {"True", "False"}

C4_Witness ==
    /\ pc = "loop"
    /\ commits = <<>>
    /\ \E c \in ToSet(log) : c \notin ToSet(Evals) /\ all_commits[c] = "True"
    /\ \E c \in ToSet(log) : c \notin ToSet(Evals) /\ all_commits[c] = "False"

\* C5: with fewer than 2 commits the run prints the insufficient-history
\* message, returns 1, never runs the command, never checks out a commit and
\* records no verdict.
C5_InsufficientHistory ==
    N < 2 =>
        /\ NumEvals = 0
        /\ Evals = <<>>
        /\ \A i \in 1..Len(calls) : calls[i].arg \notin ToSet(log)
        /\ \A c \in DOMAIN all_commits : all_commits[c] = "None"
        /\ pc \notin {"oldest", "newest", "loop"}
        /\ pc = "done" => ret = 1 /\ Printed(stderr, "InsufficientHistory")

C5_Witness ==
    /\ N = 1
    /\ pc = "done"
    /\ ret = 1
    /\ all_commits[1] = "None"

\* C6: with at least 2 commits and a command that fails on the oldest commit,
\* the run prints the no-good-baseline message and returns 1 after exactly one
\* evaluation, of the oldest commit; the newest commit is never evaluated and
\* the loop is never reached.
C6_NoGoodBaseline ==
    (N >= 2 /\ oracle[OldestSha] # 0) =>
        /\ pc \notin {"newest", "loop"}
        /\ NumEvals <= 1
        /\ NewestSha \notin ToSet(Evals)
        /\ pc \in {"finally", "done"} =>
              /\ ret = 1
              /\ NumEvals = 1
              /\ Evals = <<OldestSha>>
              /\ Printed(stdout \o stderr, "NoGoodBaseline")
              /\ ~Printed(stdout, "Done")

C6_Witness ==
    /\ N >= 3
    /\ oracle[OldestSha] # 0
    /\ pc = "done"
    /\ Evals = <<OldestSha>>

\* C7: with at least 2 commits and a command that passes on the oldest and on
\* the newest commit, the run prints the no-bad-target message and returns 1
\* after exactly two evaluations, the oldest first and the newest second, and
\* the loop is never reached.
C7_NoBadTarget ==
    (N >= 2 /\ oracle[OldestSha] = 0 /\ oracle[NewestSha] = 0) =>
        /\ pc # "loop"
        /\ NumEvals <= 2
        /\ pc \in {"finally", "done"} =>
              /\ ret = 1
              /\ NumEvals = 2
              /\ Evals = <<OldestSha, NewestSha>>
              /\ Printed(stdout \o stderr, "NoBadTarget")
              /\ ~Printed(stdout, "Done")

C7_Witness ==
    /\ N >= 3
    /\ oracle[OldestSha] = 0
    /\ oracle[NewestSha] = 0
    /\ \E c \in ToSet(log) : oracle[c] # 0
    /\ pc = "done"
    /\ Evals = <<OldestSha, NewestSha>>

PreconditionFailed ==
    \/ N < 2
    \/ oracle[OldestSha] # 0
    \/ oracle[NewestSha] = 0

Completed ==
    /\ ~PreconditionFailed
    /\ all_commits[OldestSha] = "True"
    /\ all_commits[NewestSha] = "False"
    /\ bad_commit \in ToSet(log)
    /\ stdout[Len(stdout)] = [msg |-> "BAD COMMIT", arg |-> bad_commit]

\* C8: every run returns; it returns 0 exactly when the bisection completed
\* and reported a bad commit (at least 2 commits, oldest passed, newest
\* failed) and 1 exactly when one of the three precondition checks failed.
C8_ExitStatus ==
    /\ [](pc = "done" =>
            /\ ret \in {0, 1}
            /\ ret = 0 <=> Completed
            /\ ret = 1 <=> PreconditionFailed)
    /\ (pc = "start") ~> (pc = "done")

C8_Witness ==
    /\ pc = "done"
    /\ ret = 0
    /\ Completed
    /\ \A k \in 2..N : ~Monotone(k)

\* C9: for each of the three precondition failures the error message of the
\* aborting run is printed to standard error.
C9_ErrorsOnStderr ==
    (pc = "done" /\ PreconditionFailed) =>
        \/ Printed(stderr, "InsufficientHistory")
        \/ Printed(stderr, "NoGoodBaseline")
        \/ Printed(stderr, "NoBadTarget")

\* C10: a second run with the same git log and the same command evaluates
\* the same commits in the same order and ends with the same exit status, the
\* same bad commit and the same all_commits as the first run.
C10_SameResultTwice ==
    (run = 2 /\ pc = "done") =>
        /\ Evals = prev.evals
        /\ ret = prev.ret
        /\ bad_commit = prev.bad_commit
        /\ all_commits = prev.all_commits

C10_Witness ==
    /\ run = 2
    /\ pc = "done"
    /\ ret = 0
    /\ Len(Evals) >= 4
    /\ Content(head0) # N

\* position of commit c in the chronologically ascending sequence
Pos(c) == CHOOSE i \in 1..N : Reverse(log)[i] = c

\* the commit passed to the most recent call_on_commit
LastEval == Evals[Len(Evals)]

\* a step that runs one iteration of the while loop
LoopStep == pc = "loop" /\ pc' = "loop"

\* C11: with exactly 2 commits, the oldest passing and the newest failing,
\* the window is empty when the loop is reached, the loop body never runs
\* (two evaluations in the whole run) and the reported commit is the newest.
C11_TwoCommits ==
    (N = 2 /\ oracle[OldestSha] = 0 /\ oracle[NewestSha] # 0) =>
        /\ pc = "loop" => commits = <<>>
        /\ NumEvals <= 2
        /\ pc \in {"finally", "done"} =>
              /\ ret = 0
              /\ NumEvals = 2
              /\ Evals = <<OldestSha, NewestSha>>
              /\ bad_commit = NewestSha

C11_Witness ==
    /\ N = 2
    /\ pc = "done"
    /\ ret = 0
    /\ NumEvals = 2
    /\ bad_commit = NewestSha

\* C12: the first evaluation is of the oldest commit, the second of the
\* newest, and every loop iteration evaluates the element at index
\* floor(len/2) of the current window; with 7 commits r0..r6 of which r0..r3
\* pass and r4..r6 fail the evaluations are r0, r6, r3, r5, r4 in this order,
\* r1 and r2 are never evaluated, and the reported commit is r4.
C12_EvaluationOrder ==
    /\ [](/\ Len(Evals) >= 1 => Evals[1] = OldestSha
          /\ Len(Evals) >= 2 => Evals[2] = NewestSha
          /\ (N = 7 /\ Monotone(5) /\ pc \in {"finally", "done"}) =>
                /\ Evals = << Reverse(log)[1], Reverse(log)[7],
                              Reverse(log)[4], Reverse(log)[6],
                              Reverse(log)[5] >>
                /\ bad_commit = Reverse(log)[5])
    /\ [][LoopStep =>
            Evals' = Append(Evals, commits[(Len(commits) \div 2) + 1])]_vars

C12_Witness ==
    /\ N = 7
    /\ Monotone(5)
    /\ pc = "done"
    /\ Len(Evals) = 5
    /\ Evals[3] = Reverse(log)[4]
    /\ Evals[5] = bad_commit

\* C13 as stated: every iteration evaluates window[floor(len/2)], and on a
\* window of even length this is the earlier of the two middle elements.
C13_LowerMiddle ==
    [][LoopStep =>
          /\ LastEval' = commits[(Len(commits) \div 2) + 1]
          /\ Len(commits) % 2 = 0 =>
                LastEval' = commits[Len(commits) \div 2]]_vars

\* C13 amended: every iteration evaluates window[floor(len/2)], and on a
\* window of even length this is the later of the two middle elements (those
\* at 0-based indices len/2 - 1 and len/2).
C13_UpperMiddle ==
    [][LoopStep =>
          /\ LastEval' = commits[(Len(commits) \div 2) + 1]
          /\ Len(commits) % 2 = 0 =>
                /\ LastEval' # commits[Len(commits) \div 2]
                /\ Pos(LastEval') = Pos(commits[Len(commits) \div 2]) + 1
                /\ Cardinality({c \in ToSet(commits) : Pos(c) < Pos(LastEval')})
                     = Cardinality({c \in ToSet(commits) :
                                       Pos(c) > Pos(LastEval')}) + 1]_vars

C13_Witness ==
    /\ N = 6
    /\ pc = "loop"
    /\ Len(Evals) = 3
    /\ Evals[3] = Reverse(log)[4]

\* C14: in a loop iteration, if the midpoint passes, every window element
\* before it is marked True without being evaluated and the new window is
\* exactly the elements after the midpoint; if it fails, every window element
\* after it is marked False without being evaluated and the new window is
\* exactly the elements before it; verdicts of commits outside the old window
\* do not change.
C14_Propagation ==
    [][LoopStep =>
          LET w == commits
              e == LastEval'
              p == CHOOSE i \in 1..Len(w) : w[i] = e
          IN  /\ e \in ToSet(w)
              /\ Len(Evals') = Len(Evals) + 1
              /\ IF oracle[e] = 0
                 THEN /\ all_commits'[e] = "True"
                      /\ \A i \in 1..(p - 1) :
                            /\ all_commits'[w[i]] = "True"
                            /\ w[i] \notin ToSet(Evals')
                      /\ commits' = SubSeq(w, p + 1, Len(w))
                 ELSE /\ all_commits'[e] = "False"
                      /\ \A i \in (p + 1)..Len(w) :
                            /\ all_commits'[w[i]] = "False"
                            /\ w[i] \notin ToSet(Evals')
                      /\ commits' = SubSeq(w, 1, p - 1)
              /\ \A c \in ToSet(log) \ ToSet(w) :
                    all_commits'[c] = all_commits[c]]_vars

C14_Witness ==
    /\ N = 7
    /\ pc = "loop"
    /\ Len(Evals) = 3
    /\ oracle[Evals[3]] = 0
    /\ Reverse(log)[2] \notin ToSet(Evals)
    /\ all_commits[Reverse(log)[2]] = "True"
    /\ commits = << Reverse(log)[5], Reverse(log)[6] >>

\* C15: the window is a contiguous sub-sequence of the commit sequence, its
\* length strictly decreases in every loop iteration, and for every sequence
\* and every oracle, monotonic or not, a run that reaches the loop gets to an
\* empty window and on to its final report.
C15_Termination ==
    /\ [](pc = "loop" =>
            \E a \in 1..(N + 1) : \E b \in 0..N :
                commits = SubSeq(Reverse(log), a, b))
    /\ [][LoopStep => Len(commits') < Len(commits)]_vars
    /\ (pc = "loop") ~> (pc = "loop" /\ commits = <<>>)
    /\ (pc = "loop") ~> (pc = "done" /\ Printed(stdout, "BAD COMMIT"))

C15_Witness ==
    /\ pc = "done"
    /\ Printed(stdout, "BAD COMMIT")
    /\ N = 7
    /\ Len(Evals) = 5
    /\ \A k \in 2..N : ~Monotone(k)

\* C16: on a completed run the reported commit is the chronologically
\* earliest commit whose verdict is False, and its position is the only one
\* in the final verdict map where a True entry is directly followed by a
\* False entry.
C16_EarliestFail ==
    (pc \in {"finally", "done"} /\ ret = 0) =>
        /\ bad_commit \in ToSet(log)
        /\ all_commits[bad_commit] = "False"
        /\ \A c \in ToSet(log) :
              Pos(c) < Pos(bad_commit) => all_commits[c] # "False"
        /\ {i \in 2..N : /\ all_commits[Reverse(log)[i - 1]] = "True"
                         /\ all_commits[Reverse(log)[i]] = "False"}
             = {Pos(bad_commit)}

C16_Witness ==
    /\ pc = "done"
    /\ ret = 0
    /\ N >= 6
    /\ \A k \in 2..N : ~Monotone(k)
    /\ Pos(bad_commit) > 2
    /\ Pos(bad_commit) < N

\* C17: whenever the loop condition is tested the window holds exactly the
\* commits whose verdict is still None (the oldest and the newest have been
\* recorded and removed); a verdict once written is never changed in the
\* run, every commit has one when the run completes, and no commit is
\* evaluated twice.
C17_SingleAssignment ==
    /\ [](/\ pc = "loop" =>
                /\ ToSet(commits) =
                      {c \in ToSet(log) : all_commits[c] = "None"}
                /\ Cardinality(ToSet(commits)) = Len(commits)
                /\ all_commits[OldestSha] # "None"
                /\ all_commits[NewestSha] # "None"
          /\ (pc \in {"finally", "done"} /\ ret = 0) =>
                \A c \in ToSet(log) : all_commits[c] # "None"
          /\ \A i \in 1..Len(Evals) : \A j \in 1..Len(Evals) :
                i # j => Evals[i] # Evals[j])
    /\ [][run' = run =>
            /\ \A c \in DOMAIN all_commits :
                  all_commits[c] # "None" => all_commits'[c] = all_commits[c]
            /\ Len(Evals') > Len(Evals) =>
                  /\ all_commits[LastEval'] = "None"
                  /\ all_commits'[LastEval'] # "None"]_vars

C17_Witness ==
    /\ pc = "loop"
    /\ Len(Evals) = 3
    /\ Len(commits) = 2
    /\ N = 7
    /\ all_commits[Evals[3]] = "False"

\* C18: whenever the loop condition is tested, every commit before the
\* window is marked True and every commit after it is marked False, for any
\* oracle; so the final verdict map is a non-empty run of True followed by a
\* non-empty run of False, and the search for the bad commit always finds one.
C18_LoopInvariant ==
    /\ pc = "loop" =>
          \E a \in 2..N : \E b \in 1..(N - 1) :
              /\ b >= a - 1
              /\ commits = SubSeq(Reverse(log), a, b)
              /\ \A i \in 1..(a - 1) : all_commits[Reverse(log)[i]] = "True"
              /\ \A i \in (b + 1)..N : all_commits[Reverse(log)[i]] = "False"
    /\ ((pc = "loop" /\ commits = <<>>)
           \/ (pc \in {"finally", "done"} /\ ~PreconditionFailed)) =>
          /\ \E k \in 2..N : \A i \in 1..N :
                all_commits[Reverse(log)[i]] =
                    IF i < k THEN "True" ELSE "False"
          /\ NotGood(all_commits, Reverse(log)) # {}
    /\ (pc \in {"finally", "done"} /\ ~PreconditionFailed) =>
          ret = 0 /\ bad_commit \in ToSet(log)
    /\ ~Printed(stderr, "Traceback")

C18_Witness ==
    /\ pc = "loop"
    /\ Len(Evals) = 4
    /\ commits # <<>>
    /\ \A k \in 2..N : ~Monotone(k)

\* C19: on every completed run, for any oracle, the reported commit was
\* itself evaluated and the command failed on it, and the commit directly
\* before it in the sequence was itself evaluated and the command passed on
\* it.
C19_WitnessedTransition ==
    (pc \in {"finally", "done"} /\ ret = 0) =>
        /\ bad_commit \in ToSet(Evals)
        /\ oracle[bad_commit] # 0
        /\ all_commits[bad_commit] = "False"
        /\ Pos(bad_commit) >= 2
        /\ LET q == Reverse(log)[Pos(bad_commit) - 1]
           IN  /\ q \in ToSet(Evals)
               /\ oracle[q] = 0
               /\ all_commits[q] = "True"

C19_Witness ==
    /\ pc = "done"
    /\ ret = 0
    /\ N = 7
    /\ \A k \in 2..N : ~Monotone(k)
    /\ \E c \in ToSet(log) : c \notin ToSet(Evals) /\ oracle[c] # 0
    /\ \E c \in ToSet(log) :
          c \notin ToSet(Evals) /\ oracle[c] = 0 /\ Pos(c) > Pos(bad_commit)

\* the command starts, in order
Cmds == SelectSeq(calls, LAMBDA e : e.op = "cmd")

\* C20: every command start is directly preceded by the checkout of the
\* commit under evaluation and directly followed by the command's exit, so no
\* checkout happens while a command runs; the outcome is recorded against
\* the commit that was checked out while the command ran; the checkout that
\* restores the original position is the last call of the run.
C20_CheckoutBeforeRun ==
    /\ \A i \in 1..Len(calls) :
          /\ calls[i].op = "cmd" =>
                /\ i > 1
                /\ calls[i - 1] = [op |-> "checkout", arg |-> calls[i].arg]
                /\ i < Len(calls)
                /\ calls[i + 1] = [op |-> "exit", arg |-> calls[i].arg]
          /\ calls[i].op = "exit" => (i > 1 /\ calls[i - 1].op = "cmd")
          /\ (calls[i].op = "checkout" /\ calls[i].arg \notin ToSet(log)) =>
                (i = Len(calls) /\ pc = "done")
    /\ Len(Cmds) = Len(Evals)
    /\ \A k \in 1..Len(Evals) :
          /\ Cmds[k].arg = Evals[k]
          /\ all_commits[Evals[k]] =
                IF oracle[Cmds[k].arg] = 0 THEN "True" ELSE "False"
    /\ pc = "done" =>
          /\ calls # <<>>
          /\ calls[Len(calls)] = [op |-> "checkout", arg |-> branch]

C20_Witness ==
    /\ pc = "done"
    /\ Len(Cmds) >= 4
    /\ head0 = OnBranch
    /\ head = OnBranch
    /\ calls[Len(calls) - 1] = [op |-> "exit", arg |-> Evals[Len(Evals)]]

====
